---- MODULE Spec2Model ----
(***************************************************************************)
(* Discovery-and-fetch coordination of the Cojumpendium Wayback scraper:   *)
(* the adaptive rate limiter, the SQLite-backed progress ledger and URL    *)
(* frontier, and the four discovery strategies, as one state machine.      *)
(***************************************************************************)
EXTENDS Integers, Sequences, FiniteSets, TLC

VARIABLES
    rate_limiter,     \* the AdaptiveRateLimiter instance: configuration and counters
    now,              \* time.time(), in whole seconds
    discovered_urls,  \* table discovered_urls; the row id is the index
    search_progress,  \* table search_progress, in insertion order
    request_log,      \* table request_log: the rows appended by the running process
    media,            \* table media, in insertion order
    proc,             \* the running command: queue of (phrase, strategy) pairs still to run
    call,             \* the search() call in progress: its locals and position
    last_call,        \* history: the last API call made directly, with the state before it
    streak429,        \* history: consecutive on_error(429) calls counted from a zero backoff
    hist              \* history of the discovery runs (first discoverers, run endings, last pass)

limVars  == <<rate_limiter, now>>
dbVars   == <<discovered_urls, search_progress, request_log, media>>
runVars  == <<proc, call>>
histVars == <<last_call, streak429, hist>>
vars     == <<rate_limiter, now, discovered_urls, search_progress, request_log, media,
              proc, call, last_call, streak429, hist>>

None == "None"

Max(a, b) == IF a >= b THEN a ELSE b
Min(a, b) == IF a <= b THEN a ELSE b

RECURSIVE Pow2(_)
Pow2(n) == IF n = 0 THEN 1 ELSE 2 * Pow2(n - 1)

(***************************************************************************)
(* Rate limiter (utils/rate_limiter.py)                                    *)
(***************************************************************************)

\* time.time() when a process starts; any positive value
StartTime == 1000

DefaultRateConfig ==
    [min_delay |-> 5, max_delay |-> 15, jitter |-> 3,
     backoff_base |-> 30, backoff_max |-> 600,
     requests_per_hour |-> 100, cooldown_every |-> 50, cooldown_duration |-> 180]

\* codes that on_error treats as rate limiting / server overload
ThrottleCodes == {403, 429, 503, 504}

AdaptiveRateLimiter(config, t) ==
    [min_delay         |-> config.min_delay,
     max_delay         |-> config.max_delay,
     jitter            |-> config.jitter,
     backoff_base      |-> config.backoff_base,
     backoff_max       |-> config.backoff_max,
     requests_per_hour |-> config.requests_per_hour,
     cooldown_every    |-> config.cooldown_every,
     cooldown_duration |-> config.cooldown_duration,
     current_backoff   |-> 0,
     requests_this_hour |-> 0,
     hour_start        |-> t,
     request_count     |-> 0,
     last_request_time |-> 0,
     total_requests    |-> 0,
     total_errors      |-> 0]

\* asyncio.sleep(d): a non-positive delay returns at once
SleepUntil(t, d) == IF d > 0 THEN t + d ELSE t

\* a variant that lets one request more through before it blocks
HourlyLimitReached_late(rl) == rl.requests_this_hour > rl.requests_per_hour

\* "if self.requests_this_hour >= self.requests_per_hour"
HourlyLimitReached(rl) == rl.requests_this_hour >= rl.requests_per_hour

\* a variant that never pauses for a cooldown
CooldownDue_never(rl) == FALSE

\* "if self.request_count % self.cooldown_every == 0", where it does not raise
CooldownDue(rl) == rl.cooldown_every # 0 /\ rl.request_count % rl.cooldown_every = 0

\* a variant that never sleeps for the pacing delay
PacingSleep_none(rl, current_time, delay) == 0

\* "Ensure minimum time since last request": the last sleep of wait(), from the
\* current_time read when wait() was entered
PacingSleep(rl, current_time, delay) ==
    LET time_since_last == current_time - rl.last_request_time
    IN  IF rl.last_request_time > 0
          THEN IF time_since_last < delay THEN delay - time_since_last ELSE 0
          ELSE delay

\* wait(): base and jit are the two random.uniform draws; the result is the limiter
\* after the call, the time at which the call returns, and the exception it raised
\* (request_count % cooldown_every divides by zero when cooldown_every is 0);
\* delay is the computed delay and paused the time slept before the pacing sleep
wait(rl, t, base, jit) ==
    LET current_time == t
        elapsed_hour == current_time - rl.hour_start
        rl1 == IF elapsed_hour > 3600
                 THEN [rl EXCEPT !.requests_this_hour = 0, !.hour_start = current_time]
                 ELSE rl
        limited == HourlyLimitReached(rl1)
        t2  == IF limited THEN SleepUntil(t, 3600 - elapsed_hour) ELSE t
        rl2 == IF limited
                 THEN [rl1 EXCEPT !.requests_this_hour = 0, !.hour_start = t2]
                 ELSE rl1
        rl3 == [rl2 EXCEPT !.request_count = @ + 1]
        t3  == IF CooldownDue(rl3) THEN SleepUntil(t2, rl3.cooldown_duration) ELSE t2
        delay == base + jit + (IF rl3.current_backoff > 0 THEN rl3.current_backoff ELSE 0)
        t4  == SleepUntil(t3, PacingSleep(rl3, current_time, delay))
    IN  IF rl3.cooldown_every = 0
          THEN [rl |-> rl3, now |-> t2, raised |-> "ZeroDivisionError",
                delay |-> 0, paused |-> t2 - t]
          ELSE [rl  |-> [rl3 EXCEPT !.last_request_time = t4,
                                    !.requests_this_hour = @ + 1,
                                    !.total_requests = @ + 1],
                now |-> t4, raised |-> None,
                delay |-> delay, paused |-> t3 - t]

\* a variant without the floor at zero
on_success_no_floor(rl) ==
    IF rl.current_backoff > 0
      THEN [rl EXCEPT !.current_backoff = rl.current_backoff - 10]
      ELSE rl

on_success(rl) ==
    IF rl.current_backoff > 0
      THEN [rl EXCEPT !.current_backoff = Max(0, rl.current_backoff - 10)]
      ELSE rl

\* a variant that also backs off on every error code
on_error_any_code(rl, status_code) ==
    LET rl1 == [rl EXCEPT !.total_errors = @ + 1]
    IN  IF rl1.current_backoff = 0
          THEN [rl1 EXCEPT !.current_backoff = rl1.backoff_base]
          ELSE [rl1 EXCEPT !.current_backoff = Min(rl1.current_backoff * 2, rl1.backoff_max)]

on_error(rl, status_code) ==
    LET rl1 == [rl EXCEPT !.total_errors = @ + 1]
    IN  IF status_code \in ThrottleCodes
          THEN IF rl1.current_backoff = 0
                 THEN [rl1 EXCEPT !.current_backoff = rl1.backoff_base]
                 ELSE [rl1 EXCEPT !.current_backoff =
                                     Min(rl1.current_backoff * 2, rl1.backoff_max)]
          ELSE rl1

reset(rl, t) ==
    [rl EXCEPT !.current_backoff = 0,
               !.requests_this_hour = 0,
               !.hour_start = t,
               !.request_count = 0,
               !.last_request_time = 0]

(***************************************************************************)
(* Database (database.py)                                                  *)
(***************************************************************************)

Statuses == {"pending", "fetched", "analyzed", "error"}

\* the ids of the rows of discovered_urls whose archive_url is u
RowsWithUrl(rows, u) == {i \in 1..Len(rows) : rows[i].archive_url = u}

\* a variant whose archive_url column is not UNIQUE
add_discovered_url_no_unique(rows, original_url, archive_url, archive_timestamp, search_phrase, content_hash, metadata) ==
    [rows |-> Append(rows, [original_url |-> original_url,
                            archive_url |-> archive_url,
                            archive_timestamp |-> archive_timestamp,
                            search_phrase |-> search_phrase,
                            status |-> "pending",
                            content_hash |-> content_hash,
                            metadata |-> metadata]),
     id |-> Len(rows) + 1]

\* a variant that replaces the stored row (INSERT OR REPLACE)
add_discovered_url_replace(rows, original_url, archive_url, archive_timestamp, search_phrase, content_hash, metadata) ==
    LET new == [original_url |-> original_url,
                archive_url |-> archive_url,
                archive_timestamp |-> archive_timestamp,
                search_phrase |-> search_phrase,
                status |-> "pending",
                content_hash |-> content_hash,
                metadata |-> metadata]
        same == RowsWithUrl(rows, archive_url)
    IN  IF same = {}
          THEN [rows |-> Append(rows, new), id |-> Len(rows) + 1]
          ELSE [rows |-> [i \in 1..Len(rows) |-> IF i \in same THEN new ELSE rows[i]],
                id |-> CHOOSE i \in same : TRUE]

\* INSERT; on the IntegrityError of the UNIQUE archive_url, SELECT the existing id
add_discovered_url(rows, original_url, archive_url, archive_timestamp, search_phrase, content_hash, metadata) ==
    LET same == RowsWithUrl(rows, archive_url)
    IN  IF same = {}
          THEN [rows |-> Append(rows, [original_url |-> original_url,
                                       archive_url |-> archive_url,
                                       archive_timestamp |-> archive_timestamp,
                                       search_phrase |-> search_phrase,
                                       status |-> "pending",
                                       content_hash |-> content_hash,
                                       metadata |-> metadata]),
                id |-> Len(rows) + 1]
          ELSE [rows |-> rows, id |-> CHOOSE i \in same : TRUE]

\* a variant of the status update that reaches every entry holding the same digest
update_discovered_url_status_by_hash(rows, url_id, status, content_hash) ==
    [i \in 1..Len(rows) |->
        IF i = url_id
          THEN IF content_hash # None
                 THEN [rows[i] EXCEPT !.status = status, !.content_hash = content_hash]
                 ELSE [rows[i] EXCEPT !.status = status]
          ELSE IF content_hash # None /\ rows[i].content_hash = content_hash
                 THEN [rows[i] EXCEPT !.status = status]
                 ELSE rows[i]]

update_discovered_url_status(rows, url_id, status, content_hash) ==
    [i \in 1..Len(rows) |->
        IF i = url_id
          THEN IF content_hash # None
                 THEN [rows[i] EXCEPT !.status = status, !.content_hash = content_hash]
                 ELSE [rows[i] EXCEPT !.status = status]
          ELSE rows[i]]

\* the positions of the search_progress rows of a (phrase, method) pair
ProgressRows(tbl, search_phrase, search_method) ==
    {i \in 1..Len(tbl) : tbl[i].search_phrase = search_phrase
                         /\ tbl[i].search_method = search_method}

\* cursor.fetchone(): the first matching row, or None
get_search_progress(tbl, search_phrase, search_method) ==
    LET m == ProgressRows(tbl, search_phrase, search_method)
    IN  IF m = {} THEN None
        ELSE tbl[CHOOSE i \in m : \A j \in m : i <= j]

\* a variant that always inserts a new row
update_search_progress_insert(tbl, search_phrase, search_method, last_offset, last_timestamp, completed) ==
    Append(tbl, [search_phrase |-> search_phrase, search_method |-> search_method,
                 last_offset |-> last_offset, last_timestamp |-> last_timestamp,
                 completed |-> completed])

\* UPDATE every matching row; INSERT when no row was updated
update_search_progress(tbl, search_phrase, search_method, last_offset, last_timestamp, completed) ==
    LET m == ProgressRows(tbl, search_phrase, search_method)
    IN  IF m # {}
          THEN [i \in 1..Len(tbl) |->
                   IF i \in m
                     THEN [tbl[i] EXCEPT !.last_offset = last_offset,
                                         !.last_timestamp = last_timestamp,
                                         !.completed = completed]
                     ELSE tbl[i]]
          ELSE Append(tbl, [search_phrase |-> search_phrase,
                            search_method |-> search_method,
                            last_offset |-> last_offset,
                            last_timestamp |-> last_timestamp,
                            completed |-> completed])

\* the value a keyword argument takes: the caller's, or the signature's default
Kw(args, name, default) == IF name \in DOMAIN args THEN args[name] ELSE default

log_request(log, url, status_code, success) ==
    Append(log, [url |-> url, status_code |-> status_code, success |-> success])

(***************************************************************************)
(* Inputs                                                                  *)
(***************************************************************************)

\* search phrases, as sequences of words and spaces
Phrases == {<<"cojumdip">>, <<"Bora", " ", "Karaca">>}

Methods == {"cdx", "calendar", "fulltext", "archive_search"}

StatusCodes == {403, 404, 429, 500, 503, 504}

\* archive URLs: <<prefix, date YYYYMMDD, time HHMMSS, original URL>>
WebPrefix == "https://web.archive.org/web/"

EmptyFn == [x \in {} |-> 0]

NoProc == [state |-> "none", queue |-> <<>>, resume |-> FALSE, sites |-> <<>>]
NoCall == [pc |-> "idle"]
NoPass == [ran |-> FALSE]
NoHist == [first |-> EmptyFn, finders |-> EmptyFn, ending |-> EmptyFn, pass |-> NoPass,
           requests |-> 0, exact |-> FALSE, returns |-> <<>>, window |-> 0, resets |-> 0]

(***************************************************************************)
(* The rate limiter driven directly: any interleaving of wait, on_success, *)
(* on_error and reset, with time passing in between                        *)
(***************************************************************************)

\* the number of limiter calls and clock advances explored
MaxLimiterOps == 5

SmallRateConfig ==
    [min_delay |-> 5, max_delay |-> 5, jitter |-> 0,
     backoff_base |-> 30, backoff_max |-> 100,
     requests_per_hour |-> 2, cooldown_every |-> 3, cooldown_duration |-> 180]

\* a configuration whose first backoff is above the maximum
SteepRateConfig ==
    [min_delay |-> 5, max_delay |-> 5, jitter |-> 0,
     backoff_base |-> 200, backoff_max |-> 100,
     requests_per_hour |-> 2, cooldown_every |-> 2, cooldown_duration |-> 180]

\* a configuration without cooldown pauses and with a backoff below the success step
NoCooldownRateConfig ==
    [min_delay |-> 5, max_delay |-> 5, jitter |-> 0,
     backoff_base |-> 5, backoff_max |-> 100,
     requests_per_hour |-> 2, cooldown_every |-> 0, cooldown_duration |-> 180]

RateConfigs == {DefaultRateConfig, SmallRateConfig, SteepRateConfig, NoCooldownRateConfig}

TickSteps == {7, 3600}

LimiterCall(op, arg) ==
    [op |-> op, arg |-> arg, before |-> rate_limiter, n |-> last_call.n + 1,
     at |-> now, window |-> hist.window, raised |-> None, delay |-> 0, paused |-> 0]

LimInit ==
    /\ \E c \in RateConfigs : rate_limiter = AdaptiveRateLimiter(c, StartTime)
    /\ now = StartTime
    /\ discovered_urls = <<>>
    /\ search_progress = <<>>
    /\ request_log = <<>>
    /\ media = <<>>
    /\ proc = NoProc
    /\ call = NoCall
    /\ last_call = [op |-> "init", arg |-> 0, before |-> rate_limiter,
                    n |-> 0, at |-> StartTime, window |-> 0, raised |-> None,
                    delay |-> 0, paused |-> 0]
    /\ streak429 = 0
    /\ hist = NoHist

LimWait ==
    /\ last_call.n < MaxLimiterOps
    /\ \E base \in {rate_limiter.min_delay, rate_limiter.max_delay},
          jit \in {0, rate_limiter.jitter} :
          LET r == wait(rate_limiter, now, base, jit)
          IN  /\ rate_limiter' = r.rl
              /\ now' = r.now
              /\ last_call' = [LimiterCall("wait", 0) EXCEPT !.raised = r.raised,
                                     !.delay = r.delay, !.paused = r.paused]
              \* history: the hourly windows are numbered as they are opened, and
              \* each wait() that returns is noted with its time and its window
              /\ LET w == IF r.rl.hour_start # rate_limiter.hour_start
                            THEN hist.window + 1 ELSE hist.window
                 IN  hist' = [hist EXCEPT
                                !.window = w,
                                !.returns = IF r.raised # None THEN @
                                            ELSE Append(@, [at |-> r.now, window |-> w,
                                                            resets |-> hist.resets])]
    /\ UNCHANGED <<streak429, dbVars, runVars>>

LimOnSuccess ==
    /\ last_call.n < MaxLimiterOps
    /\ rate_limiter' = on_success(rate_limiter)
    /\ last_call' = LimiterCall("on_success", 0)
    /\ streak429' = 0
    /\ UNCHANGED <<now, hist, dbVars, runVars>>

LimOnError ==
    /\ last_call.n < MaxLimiterOps
    /\ \E status_code \in StatusCodes :
          /\ rate_limiter' = on_error(rate_limiter, status_code)
          /\ last_call' = LimiterCall("on_error", status_code)
          /\ streak429' = IF status_code # 429 THEN 0
                          ELSE IF streak429 > 0 THEN streak429 + 1
                          ELSE IF rate_limiter.current_backoff = 0 THEN 1
                          ELSE 0
    /\ UNCHANGED <<now, hist, dbVars, runVars>>

LimReset ==
    /\ last_call.n < MaxLimiterOps
    /\ rate_limiter' = reset(rate_limiter, now)
    /\ last_call' = LimiterCall("reset", 0)
    /\ streak429' = 0
    /\ hist' = [hist EXCEPT !.window = @ + 1, !.resets = @ + 1]
    /\ UNCHANGED <<now, dbVars, runVars>>

LimTick ==
    /\ last_call.n < MaxLimiterOps
    /\ \E d \in TickSteps : now' = now + d
    /\ last_call' = LimiterCall("tick", 0)
    /\ UNCHANGED <<rate_limiter, streak429, hist, dbVars, runVars>>

LimNext == LimWait \/ LimOnSuccess \/ LimOnError \/ LimReset \/ LimTick

SpecLimiter == LimInit /\ [][LimNext]_vars

\* C9: after N >= 1 consecutive on_error(429) calls, counted from a backoff of zero
\* and with no on_success in between, the backoff is min(backoff_base * 2^(N-1), backoff_max)
C9_BackoffAfterStreak ==
    streak429 >= 1 =>
        rate_limiter.current_backoff =
            Min(rate_limiter.backoff_base * Pow2(streak429 - 1), rate_limiter.backoff_max)

OnErrorChangedBackoff ==
    rate_limiter.current_backoff # last_call.before.current_backoff

OnErrorFrame ==
    /\ rate_limiter.current_backoff = last_call.before.current_backoff
    /\ rate_limiter.requests_this_hour = last_call.before.requests_this_hour
    /\ rate_limiter.request_count = last_call.before.request_count
    /\ rate_limiter.last_request_time = last_call.before.last_request_time

\* C10 as stated: on_error(status_code) changes the backoff if and only if the code is
\* 403, 429, 503 or 504, and any other code leaves backoff, hourly count, request
\* counter and last-request time unchanged
C10_OnErrorIff ==
    last_call.op = "on_error" =>
        /\ OnErrorChangedBackoff <=> last_call.arg \in ThrottleCodes
        /\ last_call.arg \notin ThrottleCodes => OnErrorFrame

\* C10, amended: on_error changes the backoff only for 403, 429, 503 and 504, and such
\* a code does change it unless the backoff already equals backoff_max (or is zero with
\* a zero backoff_base); any other code leaves backoff, hourly count, request counter
\* and last-request time unchanged
C10_OnErrorOnlyThrottle ==
    last_call.op = "on_error" =>
        /\ OnErrorChangedBackoff => last_call.arg \in ThrottleCodes
        /\ ( /\ last_call.arg \in ThrottleCodes
             /\ last_call.before.current_backoff # last_call.before.backoff_max
             /\ ~(last_call.before.current_backoff = 0 /\ last_call.before.backoff_base = 0) )
           => OnErrorChangedBackoff
        /\ last_call.arg \notin ThrottleCodes => OnErrorFrame

\* on_error(404) arrived while a backoff was active and requests had been counted
C10_Witness ==
    /\ last_call.op = "on_error"
    /\ last_call.arg = 404
    /\ last_call.before.current_backoff > 0
    /\ last_call.before.request_count > 0

\* C11: on_success() sets the backoff b to max(0, b - 10) and changes nothing else
C11_OnSuccessStepsDown ==
    last_call.op = "on_success" =>
        rate_limiter = [last_call.before EXCEPT
                           !.current_backoff = Max(0, last_call.before.current_backoff - 10)]

\* on_success() arrived with a backoff below the step of 10, after requests were counted
C11_Witness ==
    /\ last_call.op = "on_success"
    /\ last_call.before.current_backoff > 0
    /\ last_call.before.current_backoff < 10
    /\ rate_limiter.current_backoff = 0

\* C12: in every reachable state 0 <= current_backoff <= backoff_max
C12_BackoffCapped ==
    /\ 0 <= rate_limiter.current_backoff
    /\ rate_limiter.current_backoff <= rate_limiter.backoff_max

\* the wait() calls that had returned in the hourly window that was open when the
\* last call was made
ReturnedInWindowBefore ==
    LET n == IF last_call.op = "wait" /\ last_call.raised = None
               THEN Len(hist.returns) - 1 ELSE Len(hist.returns)
    IN  {j \in 1..n : hist.returns[j].window = last_call.window}

\* C14: when requests_per_hour wait() calls have returned in the hourly window, the
\* next wait() returns no earlier than hour_start + 3600 of that window, in a new
\* window whose counter restarted from zero (and now counts this call)
C14_QuotaBlocksUntilBoundary ==
    ( /\ last_call.op = "wait" /\ last_call.raised = None
      /\ Cardinality(ReturnedInWindowBefore) = last_call.before.requests_per_hour )
    => /\ now >= last_call.before.hour_start + 3600
       /\ rate_limiter.hour_start >= last_call.before.hour_start + 3600
       /\ rate_limiter.requests_this_hour = 1

\* a wait() was called inside a window whose quota was used up, and it returned
C14_Witness ==
    /\ last_call.op = "wait" /\ last_call.raised = None
    /\ Cardinality(ReturnedInWindowBefore) = last_call.before.requests_per_hour
    /\ last_call.at < last_call.before.hour_start + 3600
    /\ now >= last_call.before.hour_start + 3600

\* C15 as stated: for every time t, at most requests_per_hour wait() calls return in
\* the interval (t - 3600, t] (in executions that never call reset())
C15_RollingWindowQuota ==
    hist.resets = 0 =>
    \A i \in 1..Len(hist.returns) :
        Cardinality({j \in 1..Len(hist.returns) :
                        /\ hist.returns[j].at > hist.returns[i].at - 3600
                        /\ hist.returns[j].at <= hist.returns[i].at})
            <= rate_limiter.requests_per_hour

\* C15, amended: the quota holds per hourly window, not over a rolling hour: at most
\* requests_per_hour wait() calls return in one window, and a wait() closes a window
\* only 3600 s or more after it was opened (reset() opens a new one at once)
C15_FixedWindowQuota ==
    /\ \A i \in 1..Len(hist.returns) :
          Cardinality({j \in 1..Len(hist.returns) :
                          hist.returns[j].window = hist.returns[i].window})
              <= rate_limiter.requests_per_hour
    /\ (last_call.op = "wait" /\ rate_limiter.hour_start # last_call.before.hour_start)
          => rate_limiter.hour_start >= last_call.before.hour_start + 3600

\* a window's quota was used up and a later wait() has returned in the next window,
\* with no reset() in between
C15_Witness ==
    /\ hist.resets = 0
    /\ \E i, j \in 1..Len(hist.returns) :
        /\ hist.returns[i].window < hist.returns[j].window
        /\ Cardinality({k \in 1..Len(hist.returns) :
                           hist.returns[k].window = hist.returns[i].window})
              = rate_limiter.requests_per_hour

\* C16: no call of wait(), on_success() or on_error() raises an error
C16_LimiterNeverRaises ==
    last_call.raised = None

(***************************************************************************)
(* The database driven directly: any sequence of calls of its methods      *)
(***************************************************************************)

MaxLedgerCalls   == 3
MaxFrontierCalls == 3

DbInit ==
    /\ rate_limiter = AdaptiveRateLimiter(DefaultRateConfig, StartTime)
    /\ now = StartTime
    /\ discovered_urls = <<>>
    /\ search_progress = <<>>
    /\ request_log = <<>>
    /\ media = <<>>
    /\ proc = NoProc
    /\ call = NoCall
    /\ last_call = [op |-> "init", arg |-> 0, before |-> <<>>, n |-> 0]
    /\ streak429 = 0
    /\ hist = NoHist

\* the keyword arguments a caller may pass to update_search_progress
ProgressArgs ==
    {o @@ t @@ c : o \in {EmptyFn, [last_offset |-> 2]},
                   t \in {EmptyFn, [last_timestamp |-> "20091203000000"]},
                   c \in {EmptyFn, [completed |-> TRUE], [completed |-> FALSE]}}

\* the strategies whose records the direct calls touch
LedgerMethods == {"cdx", "fulltext"}

LedgerUpdate ==
    /\ last_call.n < MaxLedgerCalls
    /\ \E search_phrase \in Phrases, search_method \in LedgerMethods, args \in ProgressArgs :
          /\ search_progress' =
                update_search_progress(search_progress, search_phrase, search_method,
                                       Kw(args, "last_offset", 0),
                                       Kw(args, "last_timestamp", None),
                                       Kw(args, "completed", FALSE))
          /\ last_call' = [op |-> "update_search_progress",
                           arg |-> [search_phrase |-> search_phrase,
                                    search_method |-> search_method,
                                    args |-> args],
                           before |-> search_progress,
                           n |-> last_call.n + 1]
    /\ UNCHANGED <<media, limVars, discovered_urls, request_log, runVars, streak429, hist>>

LedgerNext == LedgerUpdate

SpecLedger == DbInit /\ [][LedgerNext]_vars

FrontierUrls == {<<WebPrefix, 20091203, 0, "myspace.com/cojumdip">>,
                 <<WebPrefix, 20100101, 0, "myspace.com/cojumdip">>}

FrontierMeta == {[search_method |-> "cdx", detail |-> "*cojumdip*"],
                 [search_method |-> "fulltext", detail |-> 0]}

FrontierAdd ==
    /\ last_call.n < MaxFrontierCalls
    /\ \E archive_url \in FrontierUrls, search_phrase \in Phrases, metadata \in FrontierMeta,
          original_url \in {"myspace.com/cojumdip", "http://myspace.com/cojumdip"} :
          LET r == add_discovered_url(discovered_urls, original_url, archive_url,
                                      <<archive_url[2], archive_url[3]>>, search_phrase,
                                      None, metadata)
          IN  /\ discovered_urls' = r.rows
              /\ last_call' = [op |-> "add_discovered_url",
                               arg |-> [archive_url |-> archive_url,
                                        search_phrase |-> search_phrase,
                                        id |-> r.id],
                               before |-> discovered_urls,
                               n |-> last_call.n + 1]
    /\ UNCHANGED <<media, limVars, search_progress, request_log, runVars, streak429, hist>>

FrontierSetStatus ==
    /\ last_call.n < MaxFrontierCalls
    /\ \E url_id \in 1..Len(discovered_urls), status \in Statuses,
          content_hash \in {None, "sha-a"} :
          /\ discovered_urls' =
                update_discovered_url_status(discovered_urls, url_id, status, content_hash)
          /\ last_call' = [op |-> "update_discovered_url_status",
                           arg |-> [url_id |-> url_id, status |-> status],
                           before |-> discovered_urls,
                           n |-> last_call.n + 1]
    /\ UNCHANGED <<media, limVars, search_progress, request_log, runVars, streak429, hist>>

FrontierNext == FrontierAdd \/ FrontierSetStatus

SpecFrontier == DbInit /\ [][FrontierNext]_vars

\* C5: add_discovered_url for an archive URL that already has a row leaves that row's
\* status, content digest, search phrase, original URL, timestamp and metadata unchanged
C5_RediscoveryIsNoOp ==
    (last_call.op = "add_discovered_url"
        /\ RowsWithUrl(last_call.before, last_call.arg.archive_url) # {}) =>
    /\ Len(discovered_urls) = Len(last_call.before)
    /\ \A i \in RowsWithUrl(last_call.before, last_call.arg.archive_url) :
          /\ discovered_urls[i] = last_call.before[i]
          /\ last_call.arg.id = i

\* an entry that was already fetched, analyzed or in error is re-discovered under
\* another search phrase
C5_Witness ==
    /\ last_call.op = "add_discovered_url"
    /\ \E i \in RowsWithUrl(last_call.before, last_call.arg.archive_url) :
          /\ last_call.before[i].status # "pending"
          /\ last_call.before[i].content_hash # None
          /\ last_call.before[i].search_phrase # last_call.arg.search_phrase

ProgressFields == {"last_offset", "last_timestamp", "completed"}

ProgressDefault == [last_offset |-> 0, last_timestamp |-> None, completed |-> FALSE]

\* C6: update_search_progress changes only the fields the caller passed; on first
\* insert the fields not passed are 0 / NULL / false
C6_UnspecifiedFieldsKept ==
    last_call.op = "update_search_progress" =>
        LET a == last_call.arg
            old == ProgressRows(last_call.before, a.search_phrase, a.search_method)
            after == get_search_progress(search_progress, a.search_phrase, a.search_method)
        IN  \A f \in ProgressFields \ DOMAIN a.args :
               IF old = {}
                 THEN after[f] = ProgressDefault[f]
                 ELSE after[f] = get_search_progress(last_call.before, a.search_phrase,
                                                     a.search_method)[f]

\* C7: the ledger holds at most one record per (phrase, strategy) pair
C7_OneRecordPerPair ==
    \A i, j \in 1..Len(search_progress) :
        (search_progress[i].search_phrase = search_progress[j].search_phrase
            /\ search_progress[i].search_method = search_progress[j].search_method)
        => i = j

\* an update arrived for a pair that already had a record
C7_Witness ==
    /\ last_call.op = "update_search_progress"
    /\ ProgressRows(last_call.before, last_call.arg.search_phrase,
                    last_call.arg.search_method) # {}

(***************************************************************************)
(* The search command (cli.py) and the four discovery strategies           *)
(***************************************************************************)

\* outbound requests explored in one behaviour
MaxRequests == 2

\* configuration of the runs explored
UrlPatterns      == <<>>
DateRangeStart   == 2009
DateRangeEnd     == 2009
CalendarSites    == << <<"http://myspace.com/cojumdip">> >>
FullTextMaxPages == 2
ArchiveRows      == 100

\* the pacing of the runs explored: no random spread, a small hourly quota
RunRateConfig == SmallRateConfig

\* the configured phrases, in order, for a search without --phrase
ConfigPhrases == << <<"cojumdip">>, <<"Bora", " ", "Karaca">> >>

\* the scrapers _run_search builds for --method, in the order it runs them
Scrapers(method) ==
    SelectSeq(<<"cdx", "calendar", "fulltext", "archive_search">>,
              LAMBDA sc : method \in {sc, "all"})

RECURSIVE RunQueue(_, _)
\* for phrase in phrases: for scraper in scrapers
RunQueue(phrases, scrapers) ==
    IF phrases = <<>> THEN <<>>
    ELSE [i \in 1..Len(scrapers) |-> [phrase |-> Head(phrases), method |-> scrapers[i]]]
         \o RunQueue(Tail(phrases), scrapers)

\* what an HTTP GET can come back as: a body, or an exception out of get_json / get_text
\* (exc is the class the strategy's handlers see, http the status of the response, 0 for none)
Failed(exc, http) == [ok |-> FALSE, exc |-> exc, http |-> http, body |-> <<>>]
Ok(body)          == [ok |-> TRUE, exc |-> None, http |-> 200, body |-> body]

Failures == {Failed("ClientError", 429), Failed("Exception", 0)}

\* getattr(e, 'status', 500): the ClientError the client raises carries no status
StatusOfError(resp) == IF "status" \in DOMAIN resp THEN resp.status ELSE 500

\* wait(), the request, then on_success / on_error and the request-log row
\* (lines 112-122 and 167-177 of cdx.py, the same in the other strategies);
\* hook names the limiter hook the handler called after the request
Attempt(rl, t, log, url, resp, base, jit) ==
    LET w == wait(rl, t, base, jit)
    IN  IF w.raised # None
          THEN [rl |-> w.rl, now |-> w.now, log |-> log_request(log, url, 500, FALSE),
                hook |-> "none"]
        ELSE IF resp.ok
          THEN [rl |-> on_success(w.rl), now |-> w.now,
                log |-> log_request(log, url, 200, TRUE), hook |-> "on_success"]
          ELSE IF resp.exc = "ClientError"
                 THEN [rl |-> on_error(w.rl, StatusOfError(resp)), now |-> w.now,
                       log |-> log_request(log, url, StatusOfError(resp), FALSE),
                       hook |-> "on_error"]
                 ELSE [rl |-> w.rl, now |-> w.now,
                       log |-> log_request(log, url, 500, FALSE), hook |-> "none"]

\* "if url_id > 0: discovered += 1"
CountsAsDiscovered(url_id) == url_id > 0

RECURSIVE InsertItems(_, _, _)
\* the loop over the candidates of one response: rows is the table afterwards,
\* discovered the strategy's count, created the number of rows the loop added
InsertItems(rows, items, phrase) ==
    IF items = <<>> THEN [rows |-> rows, discovered |-> 0, created |-> 0]
    ELSE LET h == Head(items)
             r == add_discovered_url(rows, h.original_url, h.archive_url,
                                     h.archive_timestamp, phrase, None, h.metadata)
             rest == InsertItems(r.rows, Tail(items), phrase)
         IN  [rows |-> rest.rows,
              discovered |-> rest.discovered + (IF CountsAsDiscovered(r.id) THEN 1 ELSE 0),
              created |-> rest.created + (Len(r.rows) - Len(rows))]

\* a variant that never takes the short cut
ShortCircuits_never(tbl, phrase, method, resume) == FALSE

\* "if progress and progress['completed'] and not resume: return 0"
ShortCircuits(tbl, phrase, method, resume) ==
    /\ ProgressRows(tbl, phrase, method) # {}
    /\ get_search_progress(tbl, phrase, method).completed
    /\ ~resume

\* a variant that ignores the stored offset
StartPage_from_zero(tbl, phrase, method, resume) == 0

\* a variant that starts at the stored offset whether or not resume is set
StartPage_stored(tbl, phrase, method, resume) ==
    IF ProgressRows(tbl, phrase, method) # {}
      THEN get_search_progress(tbl, phrase, method).last_offset
      ELSE 0

\* start_page: the stored offset when resuming, else 0
StartPage(tbl, phrase, method, resume) ==
    IF ProgressRows(tbl, phrase, method) # {} /\ resume
      THEN get_search_progress(tbl, phrase, method).last_offset
      ELSE 0

\* ---- CDX (wayback/cdx.py)

Replace(phrase, c) == [i \in 1..Len(phrase) |-> IF phrase[i] = " " THEN c ELSE phrase[i]]
Remove(phrase)     == SelectSeq(phrase, LAMBDA w : w # " ")

\* url_patterns, then the three wildcard patterns of the phrase
CdxPatterns(phrase) ==
    UrlPatterns \o << <<"*">> \o Remove(phrase) \o <<"*">>,
                      <<"*">> \o Replace(phrase, "-") \o <<"*">>,
                      <<"*">> \o Replace(phrase, "_") \o <<"*">> >>

\* a record of a CDX response; digits: whether timestamp[:8] is a decimal number
CdxRecord(date, original) == [original |-> original, timestamp |-> <<date, 0>>, digits |-> TRUE]

\* a record whose timestamp field is not a number
CdxOddRecord(original) == [original |-> original, timestamp |-> <<0, 0>>, digits |-> FALSE]

CdxBodies == {<<>>,
              <<CdxRecord(20091203, <<"http://myspace.com/cojumdip">>)>>,
              <<CdxRecord(20120105, <<"http://myspace.com/cojumdip">>),
                CdxRecord(20091203, <<"http://myspace.com/cojumdip">>),
                CdxRecord(20031203, <<"http://myspace.com/cojumdip">>)>>,
              <<CdxOddRecord(<<"http://myspace.com/cojumdip">>),
                CdxRecord(20091203, <<"http://myspace.com/cojumdip">>)>>}

CdxResponses == Failures \cup {Ok(b) : b \in CdxBodies}

\* int(timestamp[:8]) raises ValueError at some record of the body
CdxRaises(body) == \E i \in 1..Len(body) : ~body[i].digits

\* the records the loop goes through before that happens
CdxReached(body) ==
    IF CdxRaises(body)
      THEN SubSeq(body, 1, (CHOOSE i \in 1..Len(body) :
                               /\ ~body[i].digits
                               /\ \A j \in 1..(i - 1) : body[j].digits) - 1)
      ELSE body

\* of these, the records that pass "int(timestamp[:8]) > 20111231: continue", as
\* insert arguments
CdxItems(body, url_pattern) ==
    LET kept == SelectSeq(CdxReached(body), LAMBDA rec : ~(rec.timestamp[1] > 20111231))
    IN  [i \in 1..Len(kept) |->
            [original_url |-> kept[i].original,
             archive_url |-> <<WebPrefix, kept[i].timestamp[1], kept[i].timestamp[2],
                               kept[i].original>>,
             archive_timestamp |-> kept[i].timestamp,
             metadata |-> [search_method |-> "cdx", detail |-> url_pattern]]]

\* the archive URLs of the records of a response that lie in the configured range
CdxCandidates(body) ==
    {<<WebPrefix, body[i].timestamp[1], body[i].timestamp[2], body[i].original>> :
        i \in {j \in 1..Len(body) :
                  /\ body[j].digits
                  /\ body[j].timestamp[1] \div 10000 >= DateRangeStart
                  /\ body[j].timestamp[1] \div 10000 <= DateRangeEnd}}

\* history: the archive URLs among insert arguments
UrlsOf(items) == {items[i].archive_url : i \in 1..Len(items)}

\* ---- FullText (wayback/fulltext.py)

\* an anchor of a result page: whether its href matches /web/(\d{14})/(.+), and the
\* prefix of the href before the timestamp ("/web/" for a relative link)
Anchor(matches, prefix, date, original) ==
    [matches |-> matches, prefix |-> prefix, date |-> date, time |-> 0,
     original |-> original]

FullTextBodies ==
    {<<>>,
     <<Anchor(TRUE, "/web/", 20091203, <<"http://myspace.com/cojumdip">>)>>,
     <<Anchor(TRUE, "/web/", 20091203, <<"http://myspace.com/cojumdip">>),
       Anchor(FALSE, "/about/", 0, <<>>),
       Anchor(TRUE, "http://web.archive.org/web/", 20120105, <<"http://myspace.com/cojumdip">>)>>}

FullTextResponses == Failures \cup {Ok(b) : b \in FullTextBodies}

\* href if it starts with http, else "https://web.archive.org" + href
FullTextArchivePrefix(prefix) == IF prefix = "/web/" THEN WebPrefix ELSE prefix

FullTextItems(body, page) ==
    LET hits == SelectSeq(body, LAMBDA a : a.matches)
    IN  [i \in 1..Len(hits) |->
            [original_url |-> hits[i].original,
             archive_url |-> <<FullTextArchivePrefix(hits[i].prefix), hits[i].date,
                               hits[i].time, hits[i].original>>,
             archive_timestamp |-> <<hits[i].date, hits[i].time>>,
             metadata |-> [search_method |-> "fulltext", detail |-> page]]]

\* ---- ArchiveSearch (wayback/archive_search.py)

ArchiveBody(has_response, docs, numFound) ==
    [has_response |-> has_response, docs |-> docs, numFound |-> numFound]

\* the largest numFound the server reports
MaxNumFound == 250

ArchiveBodies ==
    {ArchiveBody(FALSE, <<>>, 0),
     ArchiveBody(TRUE, <<>>, 0),
     ArchiveBody(TRUE, <<[identifier |-> "cojumdip-demo", date |-> 2009]>>, 150),
     ArchiveBody(TRUE, <<[identifier |-> "cojumdip-demo", date |-> 2009]>>, MaxNumFound),
     ArchiveBody(TRUE, <<[identifier |-> "", date |-> 2009],
                         [identifier |-> "cojumdip-demo", date |-> 2009]>>, 1)}

ArchiveResponses == Failures \cup {Ok(b) : b \in ArchiveBodies}

ArchiveItems(body, page) ==
    LET docs == SelectSeq(body.docs, LAMBDA d : d.identifier # "")
    IN  [i \in 1..Len(docs) |->
            [original_url |-> <<"https://archive.org/details/", docs[i].identifier>>,
             archive_url |-> <<"https://archive.org/details/", docs[i].identifier>>,
             archive_timestamp |-> <<docs[i].date, 0>>,
             metadata |-> [search_method |-> "archive_search", detail |-> page]]]

\* a variant under which the server always has more
HasMore_always(page, body) == TRUE

\* a variant that counts the pages before the current one only
HasMore_before(page, body) == page * ArchiveRows < body.numFound

\* has_more = (page + 1) * self.rows < num_found
HasMore(page, body) == (page + 1) * ArchiveRows < body.numFound

\* ---- Calendar (wayback/calendar.py)

Lower(w) == CASE w = "Bora" -> "bora" [] w = "Karaca" -> "karaca" [] OTHER -> w

\* phrase.lower().replace(' ', '')
PhraseLower(phrase) == LET p == Remove(phrase) IN [i \in 1..Len(p) |-> Lower(p[i])]

\* 'bkaraca' in phrase_lower or 'bora' in phrase_lower
LooksLikeHandle(phrase) ==
    \E i \in 1..Len(PhraseLower(phrase)) : PhraseLower(phrase)[i] \in {"bkaraca", "bora"}

\* the list the search iterates: the configured list object, extended in place
CalendarSiteList(sites, phrase) ==
    IF LooksLikeHandle(phrase)
      THEN sites \o << <<"http://myspace.com/">> \o PhraseLower(phrase),
                       <<"http://facebook.com/">> \o PhraseLower(phrase) >>
      ELSE sites

RECURSIVE CalendarUnits(_)
\* for site in sites: for year in range(start_year, end_year + 1)
CalendarUnits(sites) ==
    IF sites = <<>> THEN <<>>
    ELSE [i \in 1..(DateRangeEnd - DateRangeStart + 1) |->
             [site |-> Head(sites), year |-> DateRangeStart + i - 1]]
         \o CalendarUnits(Tail(sites))

\* a year-level item: nested when item[0] is itself a list [day, count]
YearItem(nested, day) == [nested |-> nested, day |-> day]

CalendarBody(has_items, items) == [has_items |-> has_items, items |-> items]

YearBodies(year) ==
    {CalendarBody(FALSE, <<>>),
     CalendarBody(TRUE, <<YearItem(FALSE, year * 10000 + 1203)>>),
     CalendarBody(TRUE, <<YearItem(TRUE, year * 10000 + 1203)>>)}

\* day-level items [time, status]; an item with fewer than two elements is skipped
DayBodies ==
    {CalendarBody(FALSE, <<>>),
     CalendarBody(TRUE, << <<0>>, <<0, 200>> >>)}

\* the days whose captures _search_site_year asks for
DrillDays(body) ==
    LET nested == SelectSeq(body.items, LAMBDA it : it.nested)
    IN  [i \in 1..Len(nested) |-> nested[i].day]

CalendarItems(body, site, date) ==
    LET caps == SelectSeq(body.items, LAMBDA it : Len(it) >= 2)
    IN  [i \in 1..Len(caps) |->
            [original_url |-> site,
             archive_url |-> <<WebPrefix, date, caps[i][1], site>>,
             archive_timestamp |-> <<date, caps[i][1]>>,
             metadata |-> [search_method |-> "calendar", detail |-> date]]]

\* ---- the command and the calls

NewCall(phrase, method, resume) ==
    [pc |-> "loop", phrase |-> phrase, method |-> method, resume |-> resume,
     total_discovered |-> 0,
     page |-> 0,             \* FullText / ArchiveSearch page; CDX / Calendar: units done
     units |-> <<>>,         \* CDX patterns, Calendar (site, year) pairs
     days |-> <<>>,          \* Calendar: days of the current year still to ask for
     discovered |-> 0,       \* Calendar: count of the current (site, year)
     result |-> 0,
     \* history of the call
     nreq |-> 0, created |-> 0, failed |-> FALSE, capped |-> FALSE,
     wasCompleted |-> FALSE, waits0 |-> rate_limiter.total_requests,
     log0 |-> Len(request_log),
     resp |-> <<>>,
     replay |-> FALSE, expect |-> <<>>, replayed |-> 0, full |-> FALSE, rows0 |-> <<>>,
     offset0 |-> -1,         \* last_offset stored for the pair when the call began
     trail |-> <<>>]         \* one entry per outbound request of the call

Pair(c) == <<c.phrase, c.method>>

\* history: one more response received by the call
Received(c, resp) ==
    [c EXCEPT !.nreq = @ + 1,
              !.failed = @ \/ ~resp.ok,
              !.resp = IF hist.exact THEN Append(@, resp) ELSE @,
              !.expect = IF @ # <<>> THEN Tail(@) ELSE @]

\* history: what one outbound request of a call came to. page is the page, unit
\* or day asked for, new the rows its candidates added, found the count the strategy kept,
\* num_found the numFound of an ArchiveSearch response, candidates the archive URLs
\* the response holds, rows the request-log rows the attempt appended, hook the
\* limiter hook called after the request
Entry(page, level, resp, ins, num_found, candidates, log, hook) ==
    [page |-> page, level |-> level, ok |-> resp.ok, http |-> resp.http,
     new |-> ins.created, found |-> ins.discovered, num_found |-> num_found,
     candidates |-> candidates, hook |-> hook,
     rows |-> SubSeq(log, Len(request_log) + 1, Len(log))]

\* history: the entries are kept in the runs that are followed exactly
Trail(t, e) == IF hist.exact THEN Append(t, e) ELSE t

\* history: the phrase that first inserted each archive URL, and all that tried
Noted(h, items, phrase) ==
    LET urls == {items[i].archive_url : i \in 1..Len(items)}
    IN  [h EXCEPT
           !.first = [u \in DOMAIN h.first \cup urls |->
                         IF u \in DOMAIN h.first THEN h.first[u] ELSE phrase],
           !.finders = [u \in DOMAIN h.finders \cup urls |->
                         IF u \in urls
                           THEN (IF u \in DOMAIN h.finders THEN h.finders[u] ELSE {})
                                \cup {phrase}
                           ELSE h.finders[u]]]

\* history: the responses a first call without resume has got so far, and whether
\* it has finished all its units
Passed(h, c) ==
    [h EXCEPT !.pass = IF h.exact /\ ~c.resume /\ ~c.replay
                         THEN [ran |-> TRUE, full |-> c.pc = "mark", phrase |-> c.phrase,
                               method |-> c.method, resp |-> c.resp]
                         ELSE NoPass]

\* history after one more outbound request that left the call as c
Asked(h, items, c) ==
    [Passed(Noted(h, items, c.phrase), c) EXCEPT !.requests = @ + 1]

\* the exploration goes on to one more outbound request
Affordable == hist.exact \/ hist.requests < MaxRequests

\* what the server may answer: any of S, or, when a pass is repeated against the
\* same server responses, the answer it gave at this point of the pass before
Served(S) == IF call.replay /\ call.expect # <<>> THEN {Head(call.expect)} ELSE S

FreshProcess ==
    /\ rate_limiter' = AdaptiveRateLimiter(RunRateConfig, StartTime)
    /\ now' = StartTime
    /\ request_log' = <<>>

Init ==
    /\ rate_limiter = AdaptiveRateLimiter(RunRateConfig, StartTime)
    /\ now = StartTime
    /\ discovered_urls = <<>>
    /\ search_progress = <<>>
    /\ request_log = <<>>
    /\ media = <<>>
    /\ proc = NoProc
    /\ call = NoCall
    /\ last_call = [op |-> "init", arg |-> 0, before |-> <<>>, n |-> 0]
    /\ streak429 = 0
    /\ hist = NoHist

\* --phrase p, or the configured phrases; --method m, default all
CommandPhrases == {<<p>> : p \in Phrases} \cup {ConfigPhrases}
CommandMethods == Methods \cup {"all"}

\* cli search [--phrase p] [--method m] [--resume]
SearchCommand ==
    /\ proc.state = "none"
    /\ \E phrases \in CommandPhrases, method \in CommandMethods, resume \in BOOLEAN :
          proc' = [state |-> "search", queue |-> RunQueue(phrases, Scrapers(method)),
                   resume |-> resume, sites |-> CalendarSites]
    /\ FreshProcess
    /\ UNCHANGED <<media, discovered_urls, search_progress, call, histVars>>

\* search(): the pair is completed and resume was not asked for
SearchShortCircuit ==
    /\ proc.state = "search" /\ call.pc \in {"idle", "returned"} /\ proc.queue # <<>>
    /\ LET q == Head(proc.queue)
       IN  /\ ShortCircuits(search_progress, q.phrase, q.method, proc.resume)
           /\ call' = [NewCall(q.phrase, q.method, proc.resume) EXCEPT
                          !.pc = "returned", !.wasCompleted = TRUE]
    /\ proc' = [proc EXCEPT !.queue = Tail(@)]
    /\ hist' = [hist EXCEPT !.pass = NoPass]
    /\ UNCHANGED <<limVars, dbVars, last_call, streak429>>

\* search(): the locals before the first unit of work
SearchBegin ==
    /\ proc.state = "search" /\ call.pc \in {"idle", "returned"} /\ proc.queue # <<>>
    /\ LET q == Head(proc.queue)
           sites == IF q.method = "calendar"
                      THEN CalendarSiteList(proc.sites, q.phrase) ELSE proc.sites
           units == CASE q.method = "cdx" -> CdxPatterns(q.phrase)
                      [] q.method = "calendar" -> CalendarUnits(sites)
                      [] OTHER -> <<>>
           start == IF q.method \in {"fulltext", "archive_search"}
                      THEN StartPage(search_progress, q.phrase, q.method, proc.resume)
                      ELSE 0
           empty == \/ q.method = "fulltext" /\ start >= FullTextMaxPages
                    \/ q.method \in {"cdx", "calendar"} /\ units = <<>>
           replay == /\ ~proc.resume
                     /\ hist.pass.ran
                     /\ hist.pass.phrase = q.phrase /\ hist.pass.method = q.method
           c0 == NewCall(q.phrase, q.method, proc.resume)
       IN  /\ ~ShortCircuits(search_progress, q.phrase, q.method, proc.resume)
           /\   LET c == [c0 EXCEPT
                             !.pc = IF empty THEN "mark" ELSE "loop",
                             !.page = start,
                             !.units = units,
                             !.capped = (q.method = "fulltext" /\ empty),
                             !.wasCompleted =
                                 /\ ProgressRows(search_progress, q.phrase, q.method) # {}
                                 /\ get_search_progress(search_progress, q.phrase,
                                                        q.method).completed,
                             !.offset0 =
                                 IF hist.exact
                                    /\ ProgressRows(search_progress, q.phrase, q.method) # {}
                                   THEN get_search_progress(search_progress, q.phrase,
                                                            q.method).last_offset
                                   ELSE -1,
                             !.replay = replay,
                             !.expect = IF replay THEN hist.pass.resp ELSE <<>>,
                             !.replayed = IF replay THEN Len(hist.pass.resp) ELSE 0,
                             !.full = replay /\ hist.pass.full,
                             !.rows0 = IF replay THEN discovered_urls ELSE <<>>]
                 IN  /\ call' = c
                     /\ hist' = Passed(hist, c)
           /\ proc' = [proc EXCEPT !.queue = Tail(@), !.sites = sites]
    /\ UNCHANGED <<limVars, dbVars, last_call, streak429>>

\* the two random.uniform draws of wait()
Draws == {rate_limiter.min_delay, rate_limiter.max_delay} \X {0, rate_limiter.jitter}

\* _search_pattern for the next pattern, and the loop bookkeeping of search()
CdxRequest ==
    /\ Affordable
    /\ call.pc = "loop" /\ call.method = "cdx"
    /\ \E resp \in Served(CdxResponses), d \in Draws :
          LET url_pattern == call.units[call.page + 1]
              a == Attempt(rate_limiter, now, request_log, <<"cdx", url_pattern>>,
                           resp, d[1], d[2])
              items == IF resp.ok THEN CdxItems(resp.body, url_pattern) ELSE <<>>
              ins == InsertItems(discovered_urls, items, call.phrase)
              \* the handler for other exceptions: one more log row, "return 0"
              raised == resp.ok /\ CdxRaises(resp.body)
              log == IF raised THEN log_request(a.log, <<"cdx", url_pattern>>, 500, FALSE)
                     ELSE a.log
              c == [Received(call, resp) EXCEPT
                       !.total_discovered = @ + (IF raised THEN 0 ELSE ins.discovered),
                       !.created = @ + ins.created,
                       !.page = @ + 1,
                       !.pc = IF call.page + 1 = Len(call.units) THEN "mark" ELSE "loop"]
          IN  /\ rate_limiter' = a.rl /\ now' = a.now
              /\ request_log' = log
              /\ discovered_urls' = ins.rows
              /\ call' = [c EXCEPT !.trail =
                             Trail(@, Entry(call.page, "unit", resp, ins, 0,
                                            IF resp.ok THEN CdxCandidates(resp.body) ELSE {}, log, a.hook))]
              /\ hist' = Asked(hist, items, c)
    /\ UNCHANGED <<media, search_progress, proc, last_call, streak429>>

\* _search_page for the next page, and the loop bookkeeping of search()
FullTextRequest ==
    /\ Affordable
    /\ call.pc = "loop" /\ call.method = "fulltext"
    /\ \E resp \in Served(FullTextResponses), d \in Draws :
          LET page == call.page
              a == Attempt(rate_limiter, now, request_log,
                           <<"fulltext", call.phrase, page>>, resp, d[1], d[2])
              items == IF resp.ok THEN FullTextItems(resp.body, page) ELSE <<>>
              ins == InsertItems(discovered_urls, items, call.phrase)
              stop == ins.discovered = 0
              last == page + 1 >= FullTextMaxPages
              c == [Received(call, resp) EXCEPT
                       !.total_discovered = @ + ins.discovered,
                       !.created = @ + ins.created,
                       !.page = IF stop THEN @ ELSE @ + 1,
                       !.capped = ~stop /\ last,
                       !.pc = IF stop \/ last THEN "mark" ELSE "loop"]
          IN  /\ rate_limiter' = a.rl /\ now' = a.now /\ request_log' = a.log
              /\ discovered_urls' = ins.rows
              /\ search_progress' =
                    update_search_progress(search_progress, call.phrase, "fulltext",
                                           page + 1, None, FALSE)
              /\ call' = [c EXCEPT !.trail =
                             Trail(@, Entry(page, "unit", resp, ins, 0,
                                            UrlsOf(items), a.log, a.hook))]
              /\ hist' = Asked(hist, items, c)
    /\ UNCHANGED <<media, proc, last_call, streak429>>

\* _search_page for the next page, and the loop bookkeeping of search()
ArchiveRequest ==
    /\ Affordable
    /\ call.pc = "loop" /\ call.method = "archive_search"
    /\ \E resp \in Served(ArchiveResponses), d \in Draws :
          LET page == call.page
              a == Attempt(rate_limiter, now, request_log,
                           <<"archive_search", call.phrase, page>>, resp, d[1], d[2])
              valid == resp.ok /\ resp.body.has_response
              items == IF valid THEN ArchiveItems(resp.body, page) ELSE <<>>
              ins == InsertItems(discovered_urls, items, call.phrase)
              has_more == valid /\ HasMore(page, resp.body)
              stop == ~has_more \/ ins.discovered = 0
              c == [Received(call, resp) EXCEPT
                       !.total_discovered = @ + ins.discovered,
                       !.created = @ + ins.created,
                       !.page = IF stop THEN @ ELSE @ + 1,
                       !.pc = IF stop THEN "mark" ELSE "loop"]
          IN  /\ rate_limiter' = a.rl /\ now' = a.now /\ request_log' = a.log
              /\ discovered_urls' = ins.rows
              /\ search_progress' =
                    update_search_progress(search_progress, call.phrase, "archive_search",
                                           page + 1, None, FALSE)
              /\ call' = [c EXCEPT !.trail =
                             Trail(@, Entry(page, "unit", resp, ins,
                                            IF valid THEN resp.body.numFound ELSE 0,
                                            UrlsOf(items), a.log, a.hook))]
              /\ hist' = Asked(hist, items, c)
    /\ UNCHANGED <<media, proc, last_call, streak429>>

\* history and position once the current (site, year) has returned n discoveries
CalendarUnitDone(c, n) ==
    [c EXCEPT !.total_discovered = @ + n,
              !.discovered = 0,
              !.days = <<>>,
              !.page = @ + 1,
              !.pc = IF c.page + 1 = Len(c.units) THEN "mark" ELSE "loop"]

\* _search_site_year up to its first day-level request
CalendarYearRequest ==
    /\ Affordable
    /\ call.pc = "loop" /\ call.method = "calendar"
    /\ LET unit == call.units[call.page + 1]
       IN  \E resp \in Served(Failures \cup {Ok(b) : b \in YearBodies(unit.year)}), d \in Draws :
              LET a == Attempt(rate_limiter, now, request_log,
                               <<"calendar", unit.site, unit.year>>, resp, d[1], d[2])
                  days == IF resp.ok /\ resp.body.has_items
                            THEN DrillDays(resp.body) ELSE <<>>
                  none == [rows |-> discovered_urls, discovered |-> 0, created |-> 0]
                  c0 == Received(call, resp)
                  c == IF days = <<>> THEN CalendarUnitDone(c0, 0)
                       ELSE [c0 EXCEPT !.days = days, !.discovered = 0, !.pc = "days"]
              IN  /\ rate_limiter' = a.rl /\ now' = a.now /\ request_log' = a.log
                  /\ call' = [c EXCEPT !.trail =
                                 Trail(@, Entry(call.page, "unit", resp, none, 0,
                                                {}, a.log, a.hook))]
                  /\ hist' = Asked(hist, <<>>, c)
    /\ UNCHANGED <<media, discovered_urls, search_progress, proc, last_call, streak429>>

\* _search_day_captures for the next day of the current (site, year)
CalendarDayRequest ==
    /\ Affordable
    /\ call.pc = "days" /\ call.method = "calendar"
    /\ LET unit == call.units[call.page + 1]
           date == Head(call.days)
       IN  \E resp \in Served(Failures \cup {Ok(b) : b \in DayBodies}), d \in Draws :
              LET a == Attempt(rate_limiter, now, request_log,
                               <<"calendar", unit.site, date>>, resp, d[1], d[2])
                  items == IF resp.ok /\ resp.body.has_items
                             THEN CalendarItems(resp.body, unit.site, date) ELSE <<>>
                  ins == InsertItems(discovered_urls, items, call.phrase)
                  \* the handler for other exceptions writes no request-log row here
                  log == IF ~resp.ok /\ resp.exc # "ClientError" THEN request_log ELSE a.log
                  c0 == [Received(call, resp) EXCEPT
                            !.created = @ + ins.created,
                            !.discovered = @ + ins.discovered,
                            !.days = Tail(@)]
                  c == IF c0.days = <<>> THEN CalendarUnitDone(c0, c0.discovered) ELSE c0
              IN  /\ rate_limiter' = a.rl /\ now' = a.now
                  /\ request_log' = log
                  /\ discovered_urls' = ins.rows
                  /\ call' = [c EXCEPT !.trail =
                                 Trail(@, Entry(date, "day", resp, ins, 0,
                                                UrlsOf(items), log, a.hook))]
                  /\ hist' = Asked(hist, items, c)
    /\ UNCHANGED <<media, search_progress, proc, last_call, streak429>>

\* how the loop of the call ended
Ending(c) == IF c.failed THEN "failed" ELSE IF c.capped THEN "cap" ELSE "exhausted"

\* "Mark as completed" and return total_discovered
MarkCompleted ==
    /\ call.pc = "mark"
    /\ search_progress' =
          update_search_progress(search_progress, call.phrase, call.method, 0, None, TRUE)
    /\ call' = [call EXCEPT !.pc = "returned", !.result = call.total_discovered]
    /\ hist' = [hist EXCEPT
                  !.ending = [k \in DOMAIN hist.ending \cup {Pair(call)} |->
                                 IF k = Pair(call) THEN Ending(call) ELSE hist.ending[k]],
                  !.pass = NoPass]
    /\ UNCHANGED <<media, limVars, discovered_urls, request_log, proc, last_call, streak429>>

\* _run_search returns and the process exits
CommandDone ==
    /\ proc.state = "search" /\ proc.queue = <<>> /\ call.pc \in {"idle", "returned"}
    /\ proc' = NoProc
    /\ call' = NoCall
    /\ FreshProcess
    /\ UNCHANGED <<media, discovered_urls, search_progress, histVars>>

\* the process is terminated; the database keeps what was committed
Interrupt ==
    /\ proc.state = "search" /\ call.pc \in {"loop", "days", "mark"}
    /\ proc' = NoProc
    /\ call' = NoCall
    /\ FreshProcess
    /\ UNCHANGED <<media, discovered_urls, search_progress, histVars>>

Next ==
    \/ SearchCommand \/ SearchShortCircuit \/ SearchBegin
    \/ CdxRequest \/ FullTextRequest \/ ArchiveRequest
    \/ CalendarYearRequest \/ CalendarDayRequest
    \/ MarkCompleted \/ CommandDone \/ Interrupt

Spec == Init /\ [][Next]_vars

(***************************************************************************)
(* One pair searched twice without resume: the first process is terminated *)
(* before the pair is marked completed, and the second one gets the server *)
(* responses the first one got                                             *)
(***************************************************************************)

TwiceInit ==
    /\ rate_limiter = AdaptiveRateLimiter(RunRateConfig, StartTime)
    /\ now = StartTime
    /\ discovered_urls = <<>>
    /\ search_progress = <<>>
    /\ request_log = <<>>
    /\ media = <<>>
    /\ proc = NoProc
    /\ call = NoCall
    /\ last_call = [op |-> "init", arg |-> 0, before |-> <<>>, n |-> 0]
    /\ streak429 = 0
    /\ hist = [NoHist EXCEPT !.exact = TRUE]

\* cli search --phrase p --method m, the first time or again after the termination
TwiceCommand ==
    /\ proc.state = "none"
    /\ \/ hist.requests = 0 /\ ~hist.pass.ran
       \/ hist.pass.ran
    /\ \E phrase \in Phrases, method \in Methods :
          /\ hist.pass.ran => phrase = hist.pass.phrase /\ method = hist.pass.method
          /\ proc' = [state |-> "search", queue |-> RunQueue(<<phrase>>, Scrapers(method)),
                      resume |-> FALSE, sites |-> CalendarSites]
    /\ FreshProcess
    /\ UNCHANGED <<media, discovered_urls, search_progress, call, histVars>>

\* the first process is terminated, at the latest before "Mark as completed"
TwiceInterrupt ==
    /\ Interrupt
    /\ ~call.replay

TwiceNext ==
    \/ TwiceCommand \/ SearchBegin
    \/ CdxRequest \/ FullTextRequest \/ ArchiveRequest
    \/ CalendarYearRequest \/ CalendarDayRequest
    \/ MarkCompleted \/ CommandDone \/ TwiceInterrupt

SpecTwice == TwiceInit /\ [][TwiceNext]_vars

(***************************************************************************)
(* One pair searched, the process terminated, and the pair searched again: *)
(* without resume against the same server responses, or with resume and a  *)
(* server free to answer anything                                          *)
(***************************************************************************)

\* cli search --phrase p --method m --resume, after the termination
ResumeCommand ==
    /\ proc.state = "none"
    /\ hist.pass.ran
    /\ proc' = [state |-> "search",
                queue |-> RunQueue(<<hist.pass.phrase>>, Scrapers(hist.pass.method)),
                resume |-> TRUE, sites |-> CalendarSites]
    /\ FreshProcess
    /\ UNCHANGED <<media, discovered_urls, search_progress, call, histVars>>

ResumeNext ==
    \/ TwiceCommand \/ ResumeCommand \/ SearchBegin
    \/ CdxRequest \/ FullTextRequest \/ ArchiveRequest
    \/ CalendarYearRequest \/ CalendarDayRequest
    \/ MarkCompleted \/ CommandDone \/ TwiceInterrupt

SpecResume == TwiceInit /\ [][ResumeNext]_vars

\* the entries of the call in progress
TrailNow == IF call.pc = "idle" THEN <<>> ELSE call.trail

\* the unit of an entry ended in an exception: the request failed, or the handling
\* of its response did
Failing(e) == ~e.ok \/ \E j \in 1..Len(e.rows) : ~e.rows[j].success

\* C22: FullText requests no page with an index beyond the configured maximum, and
\* no page after a page that added no new row to the Frontier
C22_FullTextStopsOnEmptyPage ==
    (call.pc # "idle" /\ call.method = "fulltext") =>
        \A i \in 1..Len(call.trail) :
            /\ call.trail[i].page < FullTextMaxPages
            /\ i < Len(call.trail) => call.trail[i].new > 0

\* C23: after a unit of work that ended in an exception the strategy goes on to
\* the unit that follows it, whenever there is one
C23_FailedUnitDoesNotStopLoop ==
    ( /\ call.pc \in {"loop", "days", "mark"}
      /\ call.trail # <<>>
      /\ Failing(call.trail[Len(call.trail)]) )
    => LET n == Len(call.trail)
           e == call.trail[n]
       IN  CASE call.method = "fulltext" ->
                    e.page + 1 < FullTextMaxPages => call.pc = "loop"
             [] call.method = "archive_search" ->
                    (n > 1 /\ (e.page + 1) * ArchiveRows < call.trail[n - 1].num_found)
                        => call.pc = "loop"
             [] OTHER ->
                    call.pc = "mark" => call.page = Len(call.units)

\* C24: every outbound request appended a request-log row whose success flag is
\* the outcome and whose status code is the HTTP status, 500 standing for none
C24_EveryAttemptLogged ==
    \A i \in 1..Len(TrailNow) :
        LET e == TrailNow[i]
        IN  /\ Len(e.rows) >= 1
            /\ e.rows[1].success = e.ok
            /\ e.rows[1].status_code = (IF e.http # 0 THEN e.http ELSE 500)

\* C25: when search has returned, every candidate of every response it received
\* has a row in the Frontier
C25_NoCandidateLost ==
    call.pc = "returned" =>
        \A i \in 1..Len(call.trail) :
            call.trail[i].ok =>
                \A u \in call.trail[i].candidates : RowsWithUrl(discovered_urls, u) # {}

\* C26: a call with resume on a pair whose ledger record holds last offset k asks
\* for page k first and for no page below k
C26_ResumeStartsAtStoredOffset ==
    ( /\ call.pc # "idle"
      /\ call.method \in {"fulltext", "archive_search"}
      /\ call.resume /\ ~call.wasCompleted /\ call.offset0 >= 0 )
    => /\ call.trail # <<>> => call.trail[1].page = call.offset0
       /\ \A i \in 1..Len(call.trail) : call.trail[i].page >= call.offset0

C26_Witness ==
    /\ call.pc # "idle"
    /\ call.method \in {"fulltext", "archive_search"}
    /\ call.resume /\ ~call.wasCompleted /\ call.offset0 = 1
    /\ call.trail # <<>> /\ call.trail[1].page = 1

\* C27: a call without resume on a pair whose ledger record is not completed and
\* holds an offset k > 0 asks for index 0 first
C27_NoResumeStartsFromScratch ==
    ( /\ call.pc # "idle"
      /\ ~call.resume /\ ~call.wasCompleted /\ call.offset0 > 0
      /\ call.trail # <<>> )
    => call.trail[1].page = 0

C27_Witness ==
    /\ call.pc # "idle"
    /\ ~call.resume /\ ~call.wasCompleted /\ call.offset0 = 1
    /\ call.trail # <<>> /\ call.trail[1].page = 0

RowsOf(method) == {i \in 1..Len(discovered_urls) :
                      discovered_urls[i].metadata.search_method = method}

C2_ReturnIsRowsCreated ==
    call.pc = "returned" => call.result = call.created

\* C3: the Frontier holds at most one row per archive URL, and the row of a URL
\* inserted under several phrases carries the phrase of the first insertion
C3_OneRowPerArchiveUrl ==
    /\ \A i, j \in 1..Len(discovered_urls) :
          discovered_urls[i].archive_url = discovered_urls[j].archive_url => i = j
    /\ \A u \in DOMAIN hist.finders :
          /\ Cardinality(RowsWithUrl(discovered_urls, u)) = 1
          /\ \A i \in RowsWithUrl(discovered_urls, u) :
                discovered_urls[i].search_phrase = hist.first[u]

\* one archive URL has been inserted under two phrases
C3_Witness ==
    \E u \in DOMAIN hist.finders : Cardinality(hist.finders[u]) >= 2

C8_CompletedMeansExhausted ==
    \A i \in 1..Len(search_progress) :
        search_progress[i].completed =>
            hist.ending[<<search_progress[i].search_phrase,
                          search_progress[i].search_method>>] = "exhausted"

\* C21: no CDX record whose timestamp year is below the configured start or above
\* the configured end is inserted into the Frontier
C21_CdxDateGuard ==
    \A i \in RowsOf("cdx") :
        /\ discovered_urls[i].archive_timestamp[1] \div 10000 >= DateRangeStart
        /\ discovered_urls[i].archive_timestamp[1] \div 10000 <= DateRangeEnd

\* C28: once a call has completed a unit of work (a CDX pattern, a Calendar
\* site-year, a FullText or ArchiveSearch page) the ledger holds a record of its pair
C28_ProgressAfterEachUnit ==
    ( /\ call.pc \in {"loop", "days", "mark"}
      /\ IF call.method \in {"cdx", "calendar"} THEN call.page >= 1 ELSE call.nreq >= 1 )
    => ProgressRows(search_progress, call.phrase, call.method) # {}

(***************************************************************************)
(* The fetch command (cli.py fetch, wayback/fetcher.py): the pending       *)
(* entries of the frontier are requested one by one, saved, analysed and   *)
(* their media references stored.  Discovery is present as the one call    *)
(* through which the strategies touch the frontier, add_discovered_url.    *)
(***************************************************************************)

\* how many archive URLs discovery can have stored
MaxEntries == 2

\* the archive URLs the strategies can discover
FetchUrls == {<<WebPrefix, 20091203 + i, 0, "myspace.com/cojumdip">> : i \in 1..MaxEntries}

\* --limit: 0 (no LIMIT clause), 1, and the default 100
FetchLimits == {0, 1, 100}

\* the pages the archive can return: empty, text only, text with two media elements
NoHtml == ""
PagePlain == "<p>cojumdip</p>"
PageMedia == "<img src=a.jpg><audio src=b.mp3>"
Htmls == {NoHtml, PagePlain, PageMedia}

\* what the client gives fetch_url: an error, or the page text
FetchResponses == Failures \cup {Ok(h) : h \in Htmls}

\* hashlib.sha256(html.encode()).hexdigest(): equal exactly for equal content
Digest(html) ==
    CASE html = PagePlain -> "sha256-of-plain"
      [] html = PageMedia -> "sha256-of-media"
      [] OTHER -> "sha256-of-empty"

\* ContentAnalyzer.analyze: the media elements of the page, images before audio
analyze(html) ==
    LET media_urls == IF html = PageMedia
                        THEN << [url |-> "a.jpg", type |-> "image"],
                                [url |-> "b.mp3", type |-> "audio"] >>
                        ELSE <<>>
    IN  [phrases_found |-> IF html = PagePlain THEN {"cojumdip"} ELSE {},
         has_media |-> Len(media_urls) > 0,
         media_urls |-> media_urls]

\* a variant that selects the entries of every status
get_pending_discovered_urls_any_status(rows, limit) ==
    LET ids == [i \in 1..Len(rows) |-> i]
    IN  IF limit # 0 THEN SubSeq(ids, 1, Min(limit, Len(ids))) ELSE ids

\* SELECT * FROM discovered_urls WHERE status = "pending" [LIMIT limit]; the rows are
\* represented by their ids
get_pending_discovered_urls(rows, limit) ==
    LET ids == SelectSeq([i \in 1..Len(rows) |-> i], LAMBDA i : rows[i].status = "pending")
    IN  IF limit # 0 THEN SubSeq(ids, 1, Min(limit, Len(ids))) ELSE ids

\* INSERT INTO media: no uniqueness, the row carries the url_id it is given
add_media(tbl, url_id, media_url, media_type) ==
    Append(tbl, [url_id |-> url_id, media_url |-> media_url, media_type |-> media_type,
                 local_path |-> None, file_hash |-> None])

\* "for media in analysis['media_urls']: self.db.add_media(url_id=url_id, ...)"
RECURSIVE SaveMedia(_, _, _)
SaveMedia(tbl, url_id, media_urls) ==
    IF media_urls = <<>> THEN tbl
    ELSE SaveMedia(add_media(tbl, url_id, Head(media_urls).url, Head(media_urls).type),
                   url_id, Tail(media_urls))

\* "for url_record in pending_urls": the entries left after one whose fetch_url
\* returned False; a variant that gives up the batch
AfterFailure_abort(queue) == <<>>

AfterFailure(queue) == Tail(queue)

\* a variant that counts every entry as fetched
CountResult_all_fetched(stats, success) ==
    [stats EXCEPT !.fetched = @ + 1,
                  !.analyzed = IF success THEN @ + 1 ELSE @,
                  !.errors = IF success THEN @ ELSE @ + 1]

\* "if success: stats['fetched'] += 1; stats['analyzed'] += 1; else: stats['errors'] += 1"
CountResult(stats, success) ==
    IF success THEN [stats EXCEPT !.fetched = @ + 1, !.analyzed = @ + 1]
    ELSE [stats EXCEPT !.errors = @ + 1]

\* history of the fetch runs: requests issued per entry, the content each entry
\* received, the statuses fetch_url wrote for it, and for each media row the entry
\* that was being fetched when it was inserted
FetchHist ==
    [fetches |-> [i \in 1..MaxEntries |-> 0],
     got     |-> [i \in 1..MaxEntries |-> None],
     moves   |-> [i \in 1..MaxEntries |-> <<>>],
     creator |-> <<>>]

FetchInit ==
    /\ rate_limiter = AdaptiveRateLimiter(RunRateConfig, StartTime)
    /\ now = StartTime
    /\ discovered_urls = <<>>
    /\ search_progress = <<>>
    /\ request_log = <<>>
    /\ media = <<>>
    /\ proc = NoProc
    /\ call = NoCall
    /\ last_call = [op |-> "init"]
    /\ streak429 = 0
    /\ hist = FetchHist

\* a search run stores one archive URL (or finds it stored already)
SearchDiscovers ==
    /\ proc.state = "none"
    /\ \E archive_url \in FetchUrls :
          discovered_urls' =
              add_discovered_url(discovered_urls, archive_url[4], archive_url,
                                 <<archive_url[2], archive_url[3]>>, ConfigPhrases[1], None,
                                 [search_method |-> "cdx", detail |-> "*cojumdip*"]).rows
    /\ last_call' = [op |-> "add_discovered_url"]
    /\ UNCHANGED <<limVars, search_progress, request_log, media, runVars, streak429, hist>>

\* cojumpendium fetch --limit n: a new process selects the pending entries
FetchCommand ==
    /\ proc.state = "none"
    /\ \E limit \in FetchLimits :
          LET pending_urls == get_pending_discovered_urls(discovered_urls, limit)
          IN  proc' = [state |-> "fetch", queue |-> pending_urls,
                       stats |-> [fetched |-> 0, analyzed |-> 0, errors |-> 0],
                       \* history: the call's limit and selection, and the
                       \* Frontier and request counts it started from
                       limit |-> limit,
                       rows0 |-> discovered_urls, fetches0 |-> hist.fetches,
                       selected |-> pending_urls, processed |-> <<>>,
                       skipped |-> {i \in 1..Len(discovered_urls) :
                                       discovered_urls[i].status # "pending"}]
    /\ FreshProcess
    /\ last_call' = [op |-> "fetch"]
    /\ UNCHANGED <<discovered_urls, search_progress, media, call, streak429, hist>>

\* what fetch_url leaves behind when it returns for the entry at the head of the queue
\* (on_error: the code on_error was called with, 0 when it was not called)
Returned(raised, http, on_error_code, status0) ==
    [op |-> "fetch_url", url_id |-> Head(proc.queue), raised |-> raised, http |-> http,
     on_error |-> on_error_code, status0 |-> status0, queue |-> proc.queue]

\* fetch_url up to the 'fetched' update: wait, the request, the empty-page test,
\* the digest and the page file
FetchUrl ==
    /\ proc.state = "fetch" /\ call.pc = "idle" /\ proc.queue # <<>>
    /\ \E resp \in FetchResponses, d \in Draws :
       \E saved \in IF resp.ok /\ resp.body # NoHtml THEN BOOLEAN ELSE {TRUE} :
          LET url_id == Head(proc.queue)
              archive_url == discovered_urls[url_id].archive_url
              status0 == discovered_urls[url_id].status
              w == wait(rate_limiter, now, d[1], d[2])
              a == Attempt(rate_limiter, now, request_log, archive_url, resp, d[1], d[2])
              asked == w.raised = None
              received == asked /\ resp.ok
              html == resp.body
              content_hash == Digest(html)
              outcome == IF ~received THEN "raised"
                         ELSE IF html = NoHtml THEN "empty"
                         ELSE IF ~saved THEN "save failed"
                         ELSE "fetched"
              status == IF outcome = "fetched" THEN "fetched" ELSE "error"
              on_error_code == IF asked /\ ~resp.ok /\ resp.exc = "ClientError"
                                 THEN StatusOfError(resp) ELSE 0
              h == [hist EXCEPT
                       !.fetches[url_id] = IF asked THEN @ + 1 ELSE @,
                       !.got[url_id] = IF received /\ html # NoHtml THEN html ELSE @,
                       !.moves[url_id] = Append(@, status)]
          IN  /\ rate_limiter' = a.rl /\ now' = a.now
              /\ request_log' = IF outcome = "save failed"
                                  THEN log_request(a.log, archive_url, 500, FALSE)
                                  ELSE a.log
              /\ discovered_urls' =
                    update_discovered_url_status(discovered_urls, url_id, status,
                        IF outcome = "fetched" THEN content_hash ELSE None)
              /\ hist' = h
              /\ IF outcome = "fetched"
                   THEN /\ call' = [pc |-> "analyze", url_id |-> url_id, html |-> html,
                                    content_hash |-> content_hash, status0 |-> status0]
                        /\ proc' = proc
                        /\ last_call' = [op |-> "get_text", url_id |-> url_id,
                                         http |-> resp.http]
                   ELSE /\ call' = NoCall
                        /\ proc' = [proc EXCEPT !.queue = AfterFailure(@),
                                                !.stats = CountResult(@, FALSE),
                                                !.processed = Append(@, url_id)]
                        /\ last_call' = Returned(outcome # "empty",
                                                 IF asked THEN resp.http ELSE 0,
                                                 on_error_code, status0)
    /\ UNCHANGED <<search_progress, media, streak429>>

\* fetch_url from the analysis on: the media rows, then 'analyzed'; an insert that
\* raises leaves the rows stored before it and ends in the handler
AnalyzeUrl ==
    /\ proc.state = "fetch" /\ call.pc = "analyze"
    /\ LET url_id == call.url_id
           archive_url == discovered_urls[url_id].archive_url
           analysis == analyze(call.html)
           n == Len(analysis.media_urls)
       IN  \E stored \in 0..n :
              LET raised == stored < n
                  status == IF raised THEN "error" ELSE "analyzed"
              IN  /\ media' = SaveMedia(media, url_id, SubSeq(analysis.media_urls, 1, stored))
                  /\ request_log' = IF raised
                                      THEN log_request(request_log, archive_url, 500, FALSE)
                                      ELSE request_log
                  /\ discovered_urls' =
                        update_discovered_url_status(discovered_urls, url_id, status,
                            IF raised THEN None ELSE call.content_hash)
                  /\ hist' = [hist EXCEPT
                                !.moves[url_id] = Append(@, status),
                                !.creator = @ \o [j \in 1..stored |-> url_id]]
                  /\ proc' = [proc EXCEPT
                                !.queue = IF raised THEN AfterFailure(@) ELSE Tail(@),
                                !.stats = CountResult(@, ~raised),
                                !.processed = Append(@, url_id)]
                  /\ last_call' = Returned(raised, 200, 0, call.status0)
    /\ call' = NoCall
    /\ UNCHANGED <<limVars, search_progress, streak429>>

\* fetch_pending_urls returns its statistics and the process ends
FetchDone ==
    /\ proc.state = "fetch" /\ call.pc = "idle" /\ proc.queue = <<>>
    /\ last_call' = [op |-> "fetch_pending_urls", selected |-> proc.selected,
                     processed |-> proc.processed, skipped |-> proc.skipped,
                     stats |-> proc.stats]
    /\ proc' = NoProc
    /\ UNCHANGED <<limVars, dbVars, call, streak429, hist>>

\* the process is terminated anywhere in the batch
FetchInterrupt ==
    /\ proc.state = "fetch"
    /\ proc' = NoProc
    /\ call' = NoCall
    /\ FreshProcess
    /\ last_call' = [op |-> "kill"]
    /\ UNCHANGED <<discovered_urls, search_progress, media, streak429, hist>>

FetchNext ==
    \/ SearchDiscovers
    \/ FetchCommand
    \/ FetchUrl
    \/ AnalyzeUrl
    \/ FetchDone
    \/ FetchInterrupt

SpecFetch == FetchInit /\ [][FetchNext]_vars

\* C13: when a request is answered with HTTP 403, 429, 503 or 504, on_error is
\* invoked with that status code and the backoff is positive before the next request
C13_ThrottlingReachesLimiter ==
    (last_call.op = "fetch_url" /\ last_call.http \in ThrottleCodes)
        => /\ last_call.on_error = last_call.http
           /\ rate_limiter.current_backoff > 0

\* C17: an entry's status changes only pending -> fetched, fetched -> analyzed,
\* pending -> error or fetched -> error; analyzed and error are never left
C17_StatusMovesForward ==
    [][\A i \in 1..Len(discovered_urls) :
          discovered_urls'[i].status # discovered_urls[i].status
             => <<discovered_urls[i].status, discovered_urls'[i].status>>
                   \in {<<"pending", "fetched">>, <<"fetched", "analyzed">>,
                        <<"pending", "error">>, <<"fetched", "error">>}]_vars

\* a fetch_pending run has processed entries while an entry that had gone
\* pending -> fetched -> analyzed in an earlier run was in the frontier
C17_Witness ==
    /\ last_call.op = "fetch_pending_urls"
    /\ last_call.processed # <<>>
    /\ \E i \in last_call.skipped :
          /\ hist.moves[i] = <<"fetched", "analyzed">>
          /\ discovered_urls[i].status = "analyzed"

C20_DigestReuseKeepsEntriesApart ==
    /\ \A i, j \in 1..Len(discovered_urls) :
          (i # j /\ hist.got[i] # None /\ hist.got[i] = hist.got[j]) =>
             /\ hist.moves[i] # <<>>
             /\ discovered_urls[i].status = hist.moves[i][Len(hist.moves[i])]
             /\ discovered_urls[i].status = "analyzed"
                   => hist.moves[i] = <<"fetched", "analyzed">>
             /\ discovered_urls[i].status \in {"fetched", "analyzed"}
                   => discovered_urls[i].content_hash = Digest(hist.got[i])
    /\ Len(media) = Len(hist.creator)
    /\ \A k \in 1..Len(media) : media[k].url_id = hist.creator[k]

\* two entries received the same page with media, both are analyzed with one digest,
\* and each has its own two media rows
C20_Witness ==
    \E i, j \in 1..Len(discovered_urls) :
        /\ i # j
        /\ hist.got[i] = PageMedia /\ hist.got[j] = PageMedia
        /\ discovered_urls[i].status = "analyzed" /\ discovered_urls[j].status = "analyzed"
        /\ discovered_urls[i].content_hash = discovered_urls[j].content_hash
        /\ Cardinality({k \in 1..Len(media) : media[k].url_id = i}) = 2
        /\ Cardinality({k \in 1..Len(media) : media[k].url_id = j}) = 2

(***************************************************************************)
(* The fetch command re-invoked after terminations, under fair scheduling: *)
(* the process is terminated a bounded number of times, a started batch    *)
(* runs on, and the command is invoked again while entries are pending     *)
(***************************************************************************)

\* the number of terminations explored
MaxKills == 1

\* history: the fetch history and the number of terminations so far
FetchLiveInit ==
    /\ rate_limiter = AdaptiveRateLimiter(RunRateConfig, StartTime)
    /\ now = StartTime
    /\ discovered_urls = <<>>
    /\ search_progress = <<>>
    /\ request_log = <<>>
    /\ media = <<>>
    /\ proc = NoProc
    /\ call = NoCall
    /\ last_call = [op |-> "init"]
    /\ streak429 = 0
    /\ hist = [fetches |-> FetchHist.fetches, got |-> FetchHist.got,
               moves |-> FetchHist.moves, creator |-> FetchHist.creator, kills |-> 0]

\* the process is terminated anywhere in the batch, MaxKills times at most
FetchKill ==
    /\ hist.kills < MaxKills
    /\ proc.state = "fetch"
    /\ proc' = NoProc
    /\ call' = NoCall
    /\ FreshProcess
    /\ last_call' = [op |-> "kill"]
    /\ hist' = [hist EXCEPT !.kills = @ + 1]
    /\ UNCHANGED <<discovered_urls, search_progress, media, streak429>>

\* the command invoked with a limit that selects at least one entry
FetchAgain == FetchCommand /\ proc'.queue # <<>>

FetchLiveNext ==
    \/ SearchDiscovers
    \/ FetchCommand
    \/ FetchUrl
    \/ AnalyzeUrl
    \/ FetchDone
    \/ FetchKill

SpecFetchLive ==
    /\ FetchLiveInit /\ [][FetchLiveNext]_vars
    /\ SF_vars(FetchAgain)
    /\ WF_vars(FetchUrl) /\ WF_vars(AnalyzeUrl) /\ WF_vars(FetchDone)

\* every Frontier entry has reached analyzed or error
AllSettled ==
    \A i \in 1..Len(discovered_urls) : discovered_urls[i].status \in {"analyzed", "error"}

\* C29: with the command re-invoked after a termination, every Frontier entry is
\* eventually analyzed or error, and stays so: none remains pending or fetched
C29_InterruptedFetchResumes == <>[]AllSettled

(***************************************************************************)
(* Pacing, cooldown and spacing of wait() (the limiter driven directly)    *)
(***************************************************************************)

\* the last call was a wait() that returned
WaitReturned == last_call.op = "wait" /\ last_call.raised = None

\* C33: when a request was made before, the pacing sleep of wait() is the computed
\* delay minus the time elapsed since that request when the pacing starts (the
\* hourly-quota and cooldown pauses of this wait() included), and zero when at
\* least the delay has elapsed
C33_PacingFromPreviousRequest ==
    (WaitReturned /\ last_call.before.last_request_time > 0) =>
        LET pacing_start == last_call.at + last_call.paused
            elapsed == pacing_start - last_call.before.last_request_time
        IN  now - pacing_start = Max(0, last_call.delay - elapsed)

\* C34: every wait() adds one to the request counter, and a wait() whose counter
\* value is a multiple of cooldown_every returns no earlier than cooldown_duration
\* after it was called
C34_CounterAndCooldown ==
    last_call.op = "wait" =>
        /\ rate_limiter.request_count = last_call.before.request_count + 1
        /\ ( /\ last_call.raised = None
             /\ \E k \in 1..rate_limiter.request_count :
                   rate_limiter.request_count = k * rate_limiter.cooldown_every )
           => now - last_call.at >= rate_limiter.cooldown_duration

\* a wait() whose counter value was a multiple of cooldown_every, after a reset had
\* restarted the counter
C34_Witness ==
    /\ WaitReturned
    /\ hist.resets > 0
    /\ rate_limiter.request_count = rate_limiter.cooldown_every
    /\ now - last_call.at >= rate_limiter.cooldown_duration

\* C35: two consecutive returns of wait() with no reset() between them lie at least
\* min_delay plus the backoff active at the later call apart
C35_MinimumSpacing ==
    LET n == Len(hist.returns)
    IN  ( /\ WaitReturned
          /\ n >= 2
          /\ hist.returns[n - 1].resets = hist.returns[n].resets )
        => hist.returns[n].at - hist.returns[n - 1].at
               >= last_call.before.min_delay + last_call.before.current_backoff

\* the later wait() was called under a backoff, when less than the delay had passed
C35_Witness ==
    /\ WaitReturned
    /\ Len(hist.returns) >= 2
    /\ hist.returns[Len(hist.returns) - 1].resets = hist.returns[Len(hist.returns)].resets
    /\ last_call.before.current_backoff > 0
    /\ last_call.at - last_call.before.last_request_time < last_call.before.min_delay

(***************************************************************************)
(* The limiter protocol around the requests of a search call               *)
(***************************************************************************)

\* C32: after every outbound request of a call, made once its wait() had returned,
\* exactly one limiter hook was invoked: on_success when the request succeeded,
\* on_error when it failed
C32_LimiterProtocol ==
    \A i \in 1..Len(TrailNow) :
        TrailNow[i].hook = (IF TrailNow[i].ok THEN "on_success" ELSE "on_error")

(***************************************************************************)
(* The two levels of the Calendar strategy                                 *)
(***************************************************************************)

\* the days a year-level response lists, in order
ListedDays(body) == [k \in 1..Len(body.items) |-> body.items[k].day]

\* the first request after request i of the call that is not a day-level one
\* (one past the last request when there is none)
NextUnit(i) ==
    LET later == {j \in (i + 1)..Len(call.trail) : call.trail[j].level = "unit"}
    IN  IF later = {} THEN Len(call.trail) + 1
        ELSE CHOOSE j \in later : \A k \in later : j <= k

\* C31: after a year-level response with items [[day, count], ...] the strategy asks
\* for each listed day exactly once, in order, before it goes on; and every capture
\* [time, status] of a day-level response has a Frontier row with timestamp day, time
C31_CalendarDrillDown ==
    (call.pc # "idle" /\ call.method = "calendar") =>
        \A i \in 1..Len(call.trail) :
            /\ ( /\ call.trail[i].level = "unit" /\ call.trail[i].ok
                 /\ call.resp[i].body.has_items )
               => LET listed == ListedDays(call.resp[i].body)
                      asked == [k \in 1..(NextUnit(i) - i - 1) |-> call.trail[i + k].page]
                  IN  /\ Len(asked) <= Len(listed)
                      /\ \A k \in 1..Len(asked) : asked[k] = listed[k]
                      /\ (NextUnit(i) <= Len(call.trail) \/ call.pc # "days")
                            => Len(asked) = Len(listed)
            /\ ( /\ call.trail[i].level = "day" /\ call.trail[i].ok
                 /\ call.resp[i].body.has_items )
               => \A k \in 1..Len(call.resp[i].body.items) :
                      Len(call.resp[i].body.items[k]) >= 2 =>
                          \E r \in 1..Len(discovered_urls) :
                              discovered_urls[r].archive_timestamp =
                                  <<call.trail[i].page, call.resp[i].body.items[k][1]>>

(***************************************************************************)
(* One process searching the configured phrases with the Calendar strategy *)
(***************************************************************************)

\* the number of outbound requests explored in the process
MaxSiteRequests == 4

\* the configured phrase lists explored
SitesPhraseLists == {ConfigPhrases, <<ConfigPhrases[2], ConfigPhrases[1]>>}

\* cli search --method calendar, once, with the phrases of the configuration
SitesCommand ==
    /\ proc.state = "none"
    /\ hist.requests = 0
    /\ \E phrases \in SitesPhraseLists :
          proc' = [state |-> "search", queue |-> RunQueue(phrases, Scrapers("calendar")),
                   resume |-> FALSE, sites |-> CalendarSites]
    /\ FreshProcess
    /\ UNCHANGED <<media, discovered_urls, search_progress, call, histVars>>

\* the year-level and day-level requests, within the number explored
SitesYearRequest == hist.requests < MaxSiteRequests /\ CalendarYearRequest

SitesDayRequest == hist.requests < MaxSiteRequests /\ CalendarDayRequest

SitesNext ==
    \/ SitesCommand
    \/ SearchBegin
    \/ SitesYearRequest
    \/ SitesDayRequest
    \/ MarkCompleted
    \/ CommandDone

SpecSites == TwiceInit /\ [][SitesNext]_vars

\* C39: the (site, year) pairs a Calendar call goes through are those of the
\* configured sites and the sites of its own phrase, whatever was searched before
C39_SitesFromConfigAndPhrase ==
    (call.pc # "idle" /\ call.method = "calendar") =>
        call.units = CalendarUnits(CalendarSiteList(CalendarSites, call.phrase))

(***************************************************************************)
(* One ArchiveSearch call that is left to run, under fair scheduling       *)
(***************************************************************************)

\* cli search --phrase p --method archive_search, once
ArchiveCommand ==
    /\ proc.state = "none"
    /\ hist.requests = 0
    /\ \E phrase \in Phrases, resume \in BOOLEAN :
          proc' = [state |-> "search",
                   queue |-> RunQueue(<<phrase>>, Scrapers("archive_search")),
                   resume |-> resume, sites |-> CalendarSites]
    /\ FreshProcess
    /\ UNCHANGED <<media, discovered_urls, search_progress, call, histVars>>

ArchiveNext ==
    \/ ArchiveCommand
    \/ SearchBegin
    \/ ArchiveRequest
    \/ MarkCompleted
    \/ CommandDone

\* the event loop runs the call on: the next page is asked for, the pair is marked
SpecArchive ==
    /\ TwiceInit /\ [][ArchiveNext]_vars
    /\ WF_vars(ArchiveRequest) /\ WF_vars(MarkCompleted)

\* an ArchiveSearch call is under way
ArchiveRunning == call.pc \in {"loop", "mark"} /\ call.method = "archive_search"

\* the pages one call can ask for when numFound never exceeds MaxNumFound
ArchivePageBound == (MaxNumFound - 1) \div ArchiveRows + 1

\* C36: an ArchiveSearch call asks for at most ArchivePageBound pages, and once
\* under way it returns
C36_ArchiveSearchTerminates ==
    /\ [](ArchiveRunning => Len(call.trail) <= ArchivePageBound)
    /\ (ArchiveRunning ~> call.pc = "returned")

\* the call returned after three pages, the last two holding only a known document
C36_Witness ==
    /\ call.pc = "returned" /\ call.method = "archive_search"
    /\ Len(call.trail) = 3
    /\ call.trail[2].new = 0 /\ call.trail[3].new = 0
    /\ call.trail[3].found >= 1

(***************************************************************************)
(* The size and the statistics of one fetch batch                          *)
(***************************************************************************)

RECURSIVE RequestsSince(_, _, _)
\* the outbound requests issued for the entries 1..n since the counts were f0
RequestsSince(f, f0, n) ==
    IF n = 0 THEN 0 ELSE (f[n] - f0[n]) + RequestsSince(f, f0, n - 1)

\* the entries whose status differs from the one they had in rows0
StatusChanged(rows0) ==
    {i \in 1..Len(rows0) : discovered_urls[i].status # rows0[i].status}

\* C37: one call of fetch_pending(limit) issues at most limit requests and changes
\* the status of at most limit entries
C37_FetchAtMostLimit ==
    proc.state = "fetch" =>
        /\ RequestsSince(hist.fetches, proc.fetches0, MaxEntries) <= proc.limit
        /\ Cardinality(StatusChanged(proc.rows0)) <= proc.limit

\* the selected entries that have the status when the call returns
SelectedWith(status) ==
    {k \in 1..Len(last_call.selected) :
        discovered_urls[last_call.selected[k]].status = status}

\* C38: the statistics fetch_pending returns: fetched = analyzed, fetched + errors is
\* the number of entries selected, fetched is the number of them now analyzed and
\* errors the number of them now in error
C38_StatisticsAccountForBatch ==
    last_call.op = "fetch_pending_urls" =>
        /\ last_call.stats.fetched = last_call.stats.analyzed
        /\ last_call.stats.fetched + last_call.stats.errors = Len(last_call.selected)
        /\ last_call.stats.fetched = Cardinality(SelectedWith("analyzed"))
        /\ last_call.stats.errors = Cardinality(SelectedWith("error"))

\* a batch returned in which one entry was analyzed and another ended in error
C38_Witness ==
    /\ last_call.op = "fetch_pending_urls"
    /\ last_call.stats.fetched >= 1
    /\ last_call.stats.errors >= 1

====
